---------------------------- MODULE Spec2Model ----------------------------
(***************************************************************************)
(* Weight transfer between skins: the transfer classes of libs/ (Closest   *)
(* Point, Inverse Distance, Point on Surface, Skin Wrap) and the point     *)
(* cloud transfer of methods/, as a state machine.  One behaviour is the   *)
(* life of one transfer instance: its construction, then a bounded number  *)
(* of transfer calls, each call stepping through the statements of the     *)
(* method (one action per loop iteration and per phase).                   *)
(*                                                                         *)
(* Floats are modelled as exact rationals <<n, d>> (d > 0, reduced);       *)
(* points live on a line, so that every distance is an integer.            *)
(***************************************************************************)
EXTENDS Integers, Sequences, FiniteSets, TLC

(***************************************************************************)
(* Bounds of the model.                                                    *)
(***************************************************************************)
MaxCalls == 2
MaxTargets == 2
MaxSources == 2
\* the largest radius and the largest falloff computeWeight is called with
MaxRadius == 3
MaxFalloff == 3
\* the largest face limit a control point is set up with
MaxFaceLimit == 4
\* the most rows the clipboard table gets, and the most Extract clicks
MaxRows == 3
MaxExtracts == 2

(***************************************************************************)
(* Program constants.                                                      *)
(***************************************************************************)
DefaultPower == 2
DefaultFaceLimit == 3
DefaultFalloff == 0

(***************************************************************************)
(* Rational arithmetic (Python floats, computed exactly).                  *)
(***************************************************************************)
Abs(n) == IF n < 0 THEN -n ELSE n

RECURSIVE GCD(_, _)
GCD(a, b) == IF b = 0 THEN a ELSE GCD(b, a % b)

Rat(n, d) ==
    LET s == IF d < 0 THEN -1 ELSE 1
        g == GCD(Abs(n), Abs(d))
    IN  <<(s * n) \div g, (s * d) \div g>>

Zero == <<0, 1>>
One == <<1, 1>>
Int2Rat(n) == <<n, 1>>

RAdd(x, y) == Rat(x[1] * y[2] + y[1] * x[2], x[2] * y[2])
RSub(x, y) == Rat(x[1] * y[2] - y[1] * x[2], x[2] * y[2])
RMul(x, y) == Rat(x[1] * y[1], x[2] * y[2])
RDiv(x, y) == Rat(x[1] * y[2], x[2] * y[1])
RLeq(x, y) == x[1] * y[2] <= y[1] * x[2]
RLess(x, y) == x[1] * y[2] < y[1] * x[2]

\* math.pow with an integer exponent
RECURSIVE RPow(_, _)
RPow(x, k) ==
    IF k = 0 THEN One
    ELSE IF k < 0 THEN RDiv(One, RPow(x, -k))
    ELSE RMul(x, RPow(x, k - 1))

\* math.ceil of a rational, as an integer
Ceil(x) == -((-x[1]) \div x[2])

RECURSIVE RSum(_, _)
RSum(f, S) ==
    IF S = {} THEN Zero
    ELSE LET j == CHOOSE k \in S : TRUE
         IN  RAdd(f[j], RSum(f, S \ {j}))

\* sum(weights.values())
Total(w) == RSum(w, DOMAIN w)

\* the number of non-zero entries of a weight map
NonZero(w) == Cardinality({j \in DOMAIN w : w[j] # Zero})

SeqToSet(s) == {s[i] : i \in 1..Len(s)}

Min(S) == CHOOSE m \in S : \A k \in S : m <= k

\* the sequences over S without repetition, of length at most n
NoRepeat(t) == \A i, j \in 1..Len(t) : i # j => t[i] # t[j]

RECURSIVE Arrangements(_, _)
Arrangements(S, n) ==
    IF n = 0 THEN {<<>>}
    ELSE LET shorter == Arrangements(S, n - 1)
             longer == {Append(s, x) : s \in shorter, x \in S}
         IN  shorter \cup {t \in longer : NoRepeat(t)}

(***************************************************************************)
(* The host's data: the source mesh and skin, and the target meshes.       *)
(* Vertices lie on a line; three faces (a triangle, a quad and a           *)
(* pentagon) form a chain, and the last source vertex touches no face.     *)
(***************************************************************************)
SrcVerts == 0..8
srcPos == [v \in SrcVerts |-> 2 * v]

SrcFaces == {0, 1, 2}
FaceVerts(f) ==
    CASE f = 0 -> <<0, 1, 2>>
      [] f = 1 -> <<1, 2, 3, 4>>
      [] f = 2 -> <<3, 4, 5, 6, 7>>

\* an edge is the set of its two end vertices
FaceEdges(f) ==
    LET vs == FaceVerts(f)
        n == Len(vs)
    IN  {{vs[i], vs[(i % n) + 1]} : i \in 1..n}

\* FnSkin.vertexWeights of the source skin: every map sums to 1; the first and
\* the last vertex are each bound to one influence of their own
SrcWeights(v) ==
    CASE v = 8 -> (1 :> One)
      [] v % 3 = 0 -> (0 :> One)
      [] v % 3 = 1 -> (0 :> <<1, 2>>) @@ (1 :> <<1, 4>>) @@ (2 :> <<1, 4>>)
      [] v % 3 = 2 -> (1 :> <<1, 2>>) @@ (2 :> <<1, 2>>)

\* the target skins a call may be given: an exact positional copy of the
\* source mesh, and another mesh whose vertices lie over the triangle, the
\* quad and the pentagon
TargetKinds == {"copy", "other"}
TgtPos(kind) ==
    IF kind = "copy" THEN srcPos
    ELSE (0 :> 4) @@ (1 :> 6) @@ (2 :> 12)

\* the vertices a caller selects on a target
TgtCandidates == {0, 1, 2}
TargetLists == Arrangements(TgtCandidates, MaxTargets)

\* the influence ids of a target skin, and its weights before any transfer
TgtInfluences == {10, 11, 12}
TgtInitialWeights(kind) == [v \in DOMAIN TgtPos(kind) |-> (10 :> One)]

\* otherSkin.maxInfluences(): the copy is capped below the three influences
\* that some source vertices have, the other mesh is not
TgtMaxInfluences(kind) == IF kind = "copy" THEN 2 ELSE 4

(***************************************************************************)
(* The collaborators the transfer classes call: the mesh function set, the *)
(* skin function set, the skin math and the k-d tree.                      *)
(***************************************************************************)
Max(S) == CHOOSE m \in S : \A k \in S : k <= m

RECURSIVE SortedSeq(_)
SortedSeq(S) == IF S = {} THEN <<>> ELSE <<Min(S)>> \o SortedSeq(S \ {Min(S)})

\* FnMesh.getConnectedFaces(vertexIndex, componentType=Vertex)
ConnectedFacesOfVertex(v) == {f \in SrcFaces : v \in SeqToSet(FaceVerts(f))}

\* FnMesh.getConnectedFaces(*faceIndices): the faces that share a vertex with one of them
ConnectedFacesOfFaces(F) ==
    {g \in SrcFaces : \E f \in F : SeqToSet(FaceVerts(f)) \cap SeqToSet(FaceVerts(g)) # {}}

\* FnMesh.getConnectedEdges(*faceIndices, componentType=Face)
ConnectedEdges(F) == UNION {FaceEdges(f) : f \in F}

\* startPoint.distanceBetween(endPoint) for the two vertices of an edge
EdgeLength(e) == srcPos[Max(e)] - srcPos[Min(e)]

\* Vector.distanceBetween on the line
Distance(p, q) == Abs(p - q)

\* cKDTree.query of one point: the local (0-based) index of the nearest point,
\* the first one in construction order on a tie; an empty tree answers with
\* the number of its points
QueryNearest(points, p) ==
    IF Len(points) = 0 THEN 0
    ELSE LET best == Min({Distance(points[i], p) : i \in 1..Len(points)})
         IN  Min({i \in 1..Len(points) : Distance(points[i], p) = best}) - 1

\* cKDTree.query_ball_point: the local indices within the radius
QueryBall(points, p, radius) ==
    SortedSeq({i - 1 : i \in {k \in 1..Len(points) :
                  RLeq(Int2Rat(Distance(points[k], p)), radius)}})

\* the keys of the n largest entries of a weight map (the lower id on a tie)
RECURSIVE Largest(_, _)
Largest(w, n) ==
    IF n = 0 \/ DOMAIN w = {} THEN {}
    ELSE LET top == Min({j \in DOMAIN w : \A k \in DOMAIN w : RLeq(w[k], w[j])})
             rest == [k \in DOMAIN w \ {top} |-> w[k]]
         IN  {top} \cup Largest(rest, n - 1)

\* skinmath.pruneWeights: the entries beyond maxInfluences are dropped
PruneWeights(w, maxInfluences) ==
    LET keep == Largest(w, maxInfluences) IN [j \in keep |-> w[j]]

\* skinmath.normalizeWeights: prunes to maxInfluences and scales to a sum of
\* 1; a total of zero is a TypeError
NormalizeWeights(w, maxInfluences) ==
    LET pruned == PruneWeights(w, maxInfluences)
        total == Total(pruned)
    IN  IF total = Zero THEN [error |-> "TypeError", weights |-> <<>>]
        ELSE [error |-> "none",
              weights |-> [j \in DOMAIN pruned |-> RDiv(pruned[j], total)]]

\* the union of the keys of a sequence of weight maps
Keys(maps) == UNION {DOMAIN maps[i] : i \in 1..Len(maps)}

Get(w, j) == IF j \in DOMAIN w THEN w[j] ELSE Zero

\* sum over i of coeff[i] * maps[i], influence by influence
Blend(maps, coeff) ==
    [j \in Keys(maps) |->
        RSum([i \in 1..Len(maps) |-> RMul(coeff[i], Get(maps[i], j))], 1..Len(maps))]

\* FnSkin.inverseDistanceWeights on a non-empty list (as many weight maps as
\* distances; anything else is a TypeError): a zero distance takes
\* that vertex's map as it is, otherwise the maps are averaged with the
\* weights 1 / distance ^ power, scaled to a sum of 1
InverseDistanceWeights(maps, distances, power) ==
    LET zeros == {i \in 1..Len(distances) : distances[i] = 0}
        inv == [i \in 1..Len(distances) |-> RDiv(One, RPow(Int2Rat(distances[i]), power))]
        total == RSum(inv, 1..Len(distances))
    IN  IF zeros # {} THEN maps[Min(zeros)]
        ELSE Blend(maps, [i \in 1..Len(distances) |-> RDiv(inv[i], total)])

\* FnSkin.createInfluenceMap: source influence id -> target influence id, by name
TgtId(j) == 10 + ((j + 1) % 3)
CreateInfluenceMap(influenceIds) == [j \in influenceIds |-> TgtId(j)]

\* FnSkin.remapVertexWeights: the keys are rewritten, weights that meet on one
\* target id are added
RemapWeights(w, influenceMap) ==
    [t \in {influenceMap[j] : j \in DOMAIN w} |->
        RSum(w, {j \in DOMAIN w : influenceMap[j] = t})]

RemapVertexWeights(updates, influenceMap) ==
    [v \in DOMAIN updates |-> RemapWeights(updates[v], influenceMap)]

\* FnSkin.applyVertexWeights: one batch write
ApplyVertexWeights(weights, updates) ==
    [v \in DOMAIN weights |-> IF v \in DOMAIN updates THEN updates[v] ELSE weights[v]]

\* set(chain(*[list(x.keys()) for x in updates.values()]))
InfluenceIds(updates) == UNION {DOMAIN updates[v] : v \in DOMAIN updates}

\* FnSkin.barycentricWeights: the three maps weighted by the barycentric coordinates
BarycentricWeights(faceVertexIndices, baryCoords) ==
    Blend([i \in 1..Len(faceVertexIndices) |-> SrcWeights(faceVertexIndices[i])], baryCoords)

\* FnSkin.bilinearWeights: the four maps weighted by (1-u)(1-v), u(1-v), uv, (1-u)v
BilinearWeights(faceVertexIndices, biCoords) ==
    LET u == biCoords[1]
        v == biCoords[2]
        coeff == <<RMul(RSub(One, u), RSub(One, v)), RMul(u, RSub(One, v)),
                   RMul(u, v), RMul(RSub(One, u), v)>>
    IN  Blend([i \in 1..Len(faceVertexIndices) |-> SrcWeights(faceVertexIndices[i])], coeff)

\* FnMesh.closestPointOnSurface for one point over a set of faces: the face
\* whose span is nearest (the lower index on a tie), the point of that span
\* nearest to the query, and its coordinates on the face
FaceLow(f) == Min({srcPos[v] : v \in SeqToSet(FaceVerts(f))})
FaceHigh(f) == Max({srcPos[v] : v \in SeqToSet(FaceVerts(f))})
Clamp(p, lo, hi) == IF p < lo THEN lo ELSE IF p > hi THEN hi ELSE p
FaceDistance(f, p) == Distance(p, Clamp(p, FaceLow(f), FaceHigh(f)))

ClosestPointOnSurface(p, faces) ==
    LET best == Min({FaceDistance(f, p) : f \in faces})
        face == Min({f \in faces : FaceDistance(f, p) = best})
        vs == FaceVerts(face)
        point == Clamp(p, FaceLow(face), FaceHigh(face))
        t == Rat(point - srcPos[vs[1]], srcPos[vs[2]] - srcPos[vs[1]])
        s == Rat(point - srcPos[vs[2]], srcPos[vs[3]] - srcPos[vs[2]])
    IN  [faceVertexIndices |-> vs,
         point |-> point,
         faceVertexPoints |-> [i \in 1..Len(vs) |-> srcPos[vs[i]]],
         baryCoords |-> IF RLeq(t, One) THEN <<RSub(One, t), t, Zero>>
                        ELSE <<Zero, RSub(One, s), s>>,
         biCoords |-> <<Rat(point - FaceLow(face), FaceHigh(face) - FaceLow(face)), Zero>>]

(***************************************************************************)
(* The transfer instance and the call in progress.                         *)
(***************************************************************************)
VARIABLES
    pc,            \* where the instance is: "new", "failed", "idle", or a phase of transfer
    alg,           \* the class of the instance
    inst,          \* the slots of the instance
    ctorArgs,      \* the arguments __init__ was called with
    ctorError,     \* the exception __init__ raised
    calls,         \* the number of transfer calls that have returned
    otherKind,     \* the target skin of the call in progress
    otherWeights,  \* the weights of the target skin
    maxInfluences, \* otherSkin.maxInfluences()
    vertexIndices, \* the vertexIndices argument of transfer
    notify,        \* the notify argument of transfer
    i,             \* the loop counter
    updates,       \* the updates dictionary
    normalizedUpdates, \* Skin Wrap: the normalizedUpdates dictionary
    missing,       \* Skin Wrap: the vertices left without a normalized update
    influenceMap,  \* the influence map of the call
    applied,       \* the batches given to applyVertexWeights in this call
    progress,      \* the values given to notify in this call
    error,         \* the exception that ended the call
    host,          \* what the host's inverseDistanceWeights does with no vertex
    last,          \* a record of the previous call, when one is kept: the call
                   \* that follows a recorded call repeats its target and its list
    query,         \* a call of computeWeight: its arguments and its result
    grow,          \* the face loop of initializeControlPoint for one vertex
    window         \* the transfer window: clipboard, table, scene selection

vars == <<pc, alg, inst, ctorArgs, ctorError, calls, otherKind, otherWeights, maxInfluences,
          vertexIndices, notify, i, updates, normalizedUpdates, missing,
          influenceMap, applied, progress, error, host, last, query, grow, window>>

callVars == <<otherKind, otherWeights, maxInfluences, vertexIndices, notify, i,
              updates, normalizedUpdates, missing, influenceMap, applied, progress,
              error>>

\* what FnSkin.inverseDistanceWeights does with no vertex at all: it fails
\* in the normalization, or it answers with an empty map; which of the two is
\* a fact of the host, not known until the first such call and the same in
\* every call after it
EmptyAverageOutcomes == {"TypeError", "empty"}

\* the values a caller gives as notify: nothing (None), a value that is not
\* callable, a function
NotifyChoices == {"none", "noncallable", "callable"}

\* callable(notify)
Callable(callback) == callback = "callable"

\* no previous call on record
NoLast ==
    [kind |-> "none", limit |-> 0, indices |-> <<>>, callback |-> "none", subset |-> <<>>,
     error |-> "none", applied |-> <<>>]

\* no call of computeWeight on record
NoQuery ==
    [distance |-> Zero, maxDistance |-> Zero, falloff |-> 0, weight |-> <<>>,
     outcome |-> "none"]

\* no face loop of initializeControlPoint on record
NoGrow ==
    [vertexIndex |-> -1, faceLimit |-> 0, faceIndices |-> {}, before |-> {}, i |-> 0,
     rounds |-> 0, pc |-> "none"]

\* what the last handler of the window did: whether it constructed a
\* transfer instance, whether it called transfer, the exception it ended with
NoEvent ==
    [handler |-> "none", constructed |-> FALSE, called |-> FALSE, error |-> "none",
     cls |-> "none"]

\* the window as QEzTransferWeights.__init__ and __setup_ui__ leave it: the
\* clipboard list, the rows of the clipboard table, the current row of the
\* table and the current index of the method combo box; with it the FnSkin
\* function sets the handlers created (each names the object it is bound to)
\* and the active selection of the scene
NewWindow ==
    [clipboard |-> <<>>, rows |-> <<>>, currentRow |-> -1, currentMethod |-> 0,
     handles |-> <<>>, selection |-> <<>>, event |-> NoEvent]

\* the classes of libs/, and the point cloud and the point-on-surface classes
\* of methods/
Algorithms ==
    {"ClosestPoint", "InverseDistance", "PointOnSurface", "SkinWrap", "PointCloud",
     "MethodsPointOnSurface"}

\* the source vertices a caller binds, and the arguments given to a constructor
SrcCandidates == {0, 1, 8}
SourceLists == Arrangements(SrcCandidates, MaxSources)

ConstructorArgs ==
    {[numArgs |-> n, skinOk |-> TRUE, subsetType |-> "list", subset |-> <<>>] : n \in {0, 1, 3}}
    \cup {[numArgs |-> n, skinOk |-> FALSE, subsetType |-> "list", subset |-> <<0>>] : n \in {1, 2}}
    \cup {[numArgs |-> 2, skinOk |-> TRUE, subsetType |-> "list", subset |-> s] : s \in SourceLists}
    \cup {[numArgs |-> 2, skinOk |-> TRUE, subsetType |-> t, subset |-> <<0, 1>>] :
              t \in {"tuple", "set", "int", "NoneType"}}

DefaultDistanceInfluence == <<6, 5>>

\* the keyword arguments of a constructor
DefaultOptions ==
    [power |-> DefaultPower, falloff |-> DefaultFalloff,
     distanceInfluence |-> DefaultDistanceInfluence, faceLimit |-> DefaultFaceLimit]

Options(algorithm) ==
    IF algorithm = "SkinWrap"
    THEN {DefaultOptions, [DefaultOptions EXCEPT !.falloff = 1, !.distanceInfluence = <<3, 4>>,
                                                 !.faceLimit = 1]}
    ELSE IF algorithm = "InverseDistance"
    THEN {DefaultOptions, [DefaultOptions EXCEPT !.power = 0],
          [DefaultOptions EXCEPT !.power = -1]}
    ELSE {DefaultOptions}

\* the slots as the first statements of __init__ leave them
EmptyInstance ==
    [skin |-> FALSE, mesh |-> FALSE, vertexIndices |-> <<>>, vertexIndicesType |-> "list",
     vertexMap |-> <<>>, cached |-> {}, vertexPoints |-> <<>>, faceIndices |-> {},
     power |-> DefaultPower, falloff |-> DefaultFalloff,
     distanceInfluence |-> DefaultDistanceInfluence, faceLimit |-> DefaultFaceLimit,
     controlPoints |-> <<>>, otherPoints |-> <<>>, otherVertexMap |-> <<>>]

\* dict(enumerate(vertexIndices)): local index -> global vertex index
Enumerate(s) == [k \in 0..(Len(s) - 1) |-> s[k + 1]]

CollectionTypes == {"list", "tuple", "set"}

\* AbstractTransfer.__init__: the exception it raises
AbstractInitError(args) ==
    IF args.numArgs = 1
    THEN IF ~args.skinOk THEN "TypeError" ELSE "none"
    ELSE IF args.numArgs = 2
    THEN IF ~args.skinOk THEN "TypeError"
         ELSE IF args.subsetType \notin CollectionTypes THEN "TypeError"
         ELSE "none"
    ELSE "TypeError"

\* AbstractTransfer.__init__: the slots it leaves when it returns
AbstractInit(args) ==
    LET all == [k \in 1..Cardinality(SrcVerts) |-> k - 1]
        bound == IF args.numArgs = 1 THEN all ELSE args.subset
    IN  [EmptyInstance EXCEPT
            !.skin = TRUE, !.mesh = TRUE,
            !.vertexIndices = bound,
            !.vertexIndicesType = IF args.numArgs = 1 THEN "list" ELSE args.subsetType,
            !.vertexMap = Enumerate(bound)]

\* skin.controlPoints(*vertexIndices)
ControlPoints(pos, indices) == [k \in 1..Len(indices) |-> pos[indices[k]]]

\* the statements of the subclass __init__ that follow the call of the parent's
SubclassInit(algorithm, base, options) ==
    CASE algorithm \in {"ClosestPoint", "PointCloud"} ->
            [base EXCEPT !.vertexPoints = ControlPoints(srcPos, base.vertexIndices),
                         !.cached = {"points", "tree"}]
      [] algorithm = "InverseDistance" ->
            [base EXCEPT !.vertexPoints = ControlPoints(srcPos, base.vertexIndices),
                         !.cached = {"points"},
                         !.power = options.power]
      [] algorithm = "PointOnSurface" ->
            [base EXCEPT !.faceIndices =
                             UNION {ConnectedFacesOfVertex(v) : v \in SeqToSet(base.vertexIndices)},
                         !.cached = {"faces"}]
      [] algorithm = "MethodsPointOnSurface" ->
            [base EXCEPT !.faceIndices =
                             UNION {ConnectedFacesOfVertex(v) : v \in SeqToSet(base.vertexIndices)},
                         !.cached = {"triMesh", "faces"}]
      [] algorithm = "SkinWrap" ->
            [base EXCEPT !.falloff = options.falloff,
                         !.distanceInfluence = options.distanceInfluence,
                         !.faceLimit = options.faceLimit]

\* a constructor that reads the source data before the parent's __init__ has
\* validated the arguments
NewInstanceReadsFirst(algorithm, args, options) ==
    SubclassInit(algorithm, AbstractInit(args), options)

\* the instance a constructor call leaves: the parent's __init__ runs first,
\* and what it raises ends the construction
NewInstance(algorithm, args, options) ==
    IF AbstractInitError(args) # "none" THEN EmptyInstance
    ELSE SubclassInit(algorithm, AbstractInit(args), options)

Init ==
    /\ pc = "new"
    /\ alg = "none"
    /\ inst = EmptyInstance
    /\ ctorArgs = [numArgs |-> 0, skinOk |-> FALSE, subsetType |-> "list", subset |-> <<>>]
    /\ ctorError = "none"
    /\ calls = 0
    /\ otherKind = "none"
    /\ otherWeights = <<>>
    /\ maxInfluences = 0
    /\ vertexIndices = <<>>
    /\ notify = "none"
    /\ i = 0
    /\ updates = <<>>
    /\ normalizedUpdates = <<>>
    /\ missing = <<>>
    /\ influenceMap = <<>>
    /\ applied = <<>>
    /\ progress = <<>>
    /\ error = "none"
    /\ host = "unknown"
    /\ last = NoLast
    /\ query = NoQuery
    /\ grow = NoGrow
    /\ window = NewWindow

\* cls(*args, **kwargs)
Construct ==
    /\ pc = "new"
    /\ \E algorithm \in Algorithms, args \in ConstructorArgs :
         \E options \in Options(algorithm) :
            /\ alg' = algorithm
            /\ ctorArgs' = args
            /\ ctorError' = AbstractInitError(args)
            /\ inst' = NewInstance(algorithm, args, options)
            /\ pc' = IF AbstractInitError(args) = "none" THEN "idle" ELSE "failed"
    /\ UNCHANGED <<grow, window, host, query, last, calls, callVars>>

(***************************************************************************)
(* transfer(otherSkin, vertexIndices, notify)                              *)
(***************************************************************************)
\* the names an instance of a class resolves: its slots and its properties
Attributes(algorithm) ==
    CASE algorithm = "PointCloud" ->
            {"_skin", "_mesh", "_vertexIndices", "className", "mesh", "skin", "vertexIndices",
             "vertexMap", "points", "tree"}
      [] algorithm = "MethodsPointOnSurface" ->
            {"_skin", "_mesh", "_vertexIndices", "className", "mesh", "skin", "vertexIndices",
             "_triMesh", "_faceIndices", "triMesh", "faceIndices"}
      [] OTHER ->
            {"_mesh", "_skin", "_vertexIndices", "_vertexMap", "className", "title", "skin",
             "mesh", "vertexIndices", "vertexMap"}
            \cup (CASE algorithm = "ClosestPoint" -> {"_vertexPoints", "_pointTree", "vertexPoints", "pointTree"}
                    [] algorithm = "InverseDistance" -> {"_vertexPoints", "_power", "vertexPoints", "power"}
                    [] algorithm = "PointOnSurface" -> {"_faceIndices", "faceIndices"}
                    [] algorithm = "SkinWrap" ->
                          {"_falloff", "_distanceInfluence", "_faceLimit", "_controlPoints",
                           "_otherPoints", "_otherPointTree", "_otherVertexMap", "falloff",
                           "distanceInfluence", "faceLimit"}
                    [] OTHER -> {})

\* updates[vertexIndex] = weights
Put(d, k, x) == [v \in DOMAIN d \cup {k} |-> IF v = k THEN x ELSE d[v]]

\* int(math.ceil(x))
Percent(x) == Ceil(x)

\* 100.0 / float(n)
ProgressFactor(n) == Rat(100, n)

\* the caller's choice of a target skin, a vertex list and a callback
StartCall(algorithm, kind, limit, indices, callback) ==
    /\ pc = "idle"
    /\ alg = algorithm
    /\ calls < MaxCalls
    /\ otherKind' = kind
    /\ otherWeights' = TgtInitialWeights(kind)
    /\ maxInfluences' = limit
    /\ vertexIndices' = indices
    /\ notify' = callback
    /\ normalizedUpdates' = <<>>
    /\ missing' = <<>>
    /\ influenceMap' = <<>>
    /\ applied' = <<>>
    /\ progress' = <<>>
    /\ \/ last = NoLast
       \/ /\ last.kind = kind
          /\ last.limit = limit
          /\ last.indices = indices
          /\ last.callback \in {"none", callback}
    /\ UNCHANGED <<grow, window, host, query, last, alg, ctorArgs, ctorError, calls>>

\* an exception leaves the method
Raise(name) ==
    /\ pc' = "raised"
    /\ error' = name

\* ClosestPoint.transfer up to the loop, without the progress factor: an
\* empty list goes on to the influence map
ClosestPointBeginNoFactor ==
    \E kind \in TargetKinds, indices \in TargetLists,
       callback \in NotifyChoices :
        /\ StartCall("ClosestPoint", kind, TgtMaxInfluences(kind), indices, callback)
        /\ updates' = <<>>
        /\ i' = 1
        /\ pc' = IF Len(indices) = 0 THEN "influences" ELSE "loop"
        /\ error' = "none"
        /\ UNCHANGED inst

\* ClosestPoint.transfer, up to the loop
ClosestPointBegin ==
    \E kind \in TargetKinds, indices \in TargetLists,
       callback \in NotifyChoices :
        /\ StartCall("ClosestPoint", kind, TgtMaxInfluences(kind), indices, callback)
        /\ updates' = <<>>
        /\ i' = 1
        /\ IF Len(indices) = 0
           THEN Raise("ZeroDivisionError")
           ELSE pc' = "loop" /\ error' = "none"
        /\ UNCHANGED inst

\* ClosestPoint.transfer, one iteration of the loop
ClosestPointStep ==
    /\ pc = "loop"
    /\ alg = "ClosestPoint"
    /\ LET vertexIndex == vertexIndices[i]
           vertexPoint == TgtPos(otherKind)[vertexIndex]
           closestIndices == QueryNearest(inst.vertexPoints, vertexPoint)
       IN  IF "localVertexMap" \notin Attributes(alg)
           THEN /\ Raise("AttributeError")
                /\ UNCHANGED <<updates, progress, i>>
           ELSE IF closestIndices \notin DOMAIN inst.vertexMap
           THEN /\ Raise("KeyError")
                /\ UNCHANGED <<updates, progress, i>>
           ELSE /\ updates' = Put(updates, vertexIndex, SrcWeights(inst.vertexMap[closestIndices]))
                /\ progress' = IF Callable(notify)
                               THEN Append(progress,
                                      Percent(RMul(Int2Rat(i), ProgressFactor(Len(vertexIndices)))))
                               ELSE progress
                /\ i' = i + 1
                /\ pc' = IF i = Len(vertexIndices) THEN "influences" ELSE "loop"
                /\ error' = "none"
    /\ UNCHANGED <<grow, window, host, query, last, alg, inst, ctorArgs, ctorError, calls, otherKind, otherWeights, maxInfluences,
                   vertexIndices, notify, normalizedUpdates, missing, influenceMap, applied>>

\* InverseDistance.transfer, up to the loop
InverseDistanceBegin ==
    \E kind \in TargetKinds, indices \in TargetLists,
       callback \in NotifyChoices :
        /\ StartCall("InverseDistance", kind, TgtMaxInfluences(kind), indices, callback)
        /\ updates' = <<>>
        /\ i' = 1
        /\ pc' = IF Len(indices) = 0 THEN "influences" ELSE "loop"
        /\ error' = "none"
        /\ UNCHANGED inst

\* an inverse distance that takes the nearest source vertex alone
NearestAverage(vertexPoint, instance) ==
    SrcWeights(instance.vertexIndices[QueryNearest(instance.vertexPoints, vertexPoint) + 1])

\* the body of the loop of InverseDistance.transfer: the distances to every
\* cached source point, and the host's average of the weights of every source
\* vertex with the instance's power
InverseDistanceAverage(vertexPoint, instance) ==
    LET n == Len(instance.vertexPoints)
        distances == [k \in 1..n |-> Distance(vertexPoint, instance.vertexPoints[k])]
        vertexWeights == [k \in 1..n |-> SrcWeights(instance.vertexIndices[k])]
    IN  InverseDistanceWeights(vertexWeights, distances, instance.power)

\* InverseDistance.transfer, one iteration of the loop
InverseDistanceStep ==
    /\ pc = "loop"
    /\ alg = "InverseDistance"
    /\ LET vertexIndex == vertexIndices[i]
           vertexPoint == TgtPos(otherKind)[vertexIndex]
           n == Len(inst.vertexPoints)
           m == Len(inst.vertexIndices)
           outcomes == IF m # n THEN {"TypeError"}
                       ELSE IF n > 0 THEN {"average"}
                       ELSE IF host = "unknown" THEN EmptyAverageOutcomes
                       ELSE {host}
       IN  \E outcome \in outcomes :
             /\ host' = IF m = 0 /\ n = 0 THEN outcome ELSE host
             /\ IF outcome = "TypeError"
                THEN /\ Raise("TypeError")
                     /\ UNCHANGED <<updates, progress, i>>
                ELSE
                  /\ updates' = Put(updates, vertexIndex,
                                     IF outcome = "empty" THEN <<>>
                                     ELSE InverseDistanceAverage(vertexPoint, inst))
                  /\ progress' = IF Callable(notify) THEN Append(progress, i) ELSE progress
                  /\ i' = i + 1
                  /\ pc' = IF i = Len(vertexIndices) THEN "influences" ELSE "loop"
                  /\ error' = "none"
    /\ UNCHANGED <<grow, window, query, last, alg, inst, ctorArgs, ctorError, calls, otherKind, otherWeights,
                   maxInfluences, vertexIndices, notify, normalizedUpdates, missing,
                   influenceMap, applied>>

\* PointCloud.transfer, up to the influence map: the nearest source vertex of
\* every target vertex, and its weights
PointCloudBegin ==
    \E kind \in TargetKinds, indices \in TargetLists :
        /\ StartCall("PointCloud", kind, TgtMaxInfluences(kind), indices, "none")
        /\ i' = 1
        /\ LET closestIndices == [k \in 1..Len(indices) |->
                                     QueryNearest(inst.vertexPoints, TgtPos(kind)[indices[k]])]
           IN  IF \E k \in 1..Len(indices) : closestIndices[k] \notin DOMAIN inst.vertexMap
               THEN /\ Raise("KeyError")
                    /\ updates' = <<>>
               ELSE /\ updates' = [v \in SeqToSet(indices) |->
                                     LET k == Max({m \in 1..Len(indices) : indices[m] = v})
                                     IN  SrcWeights(inst.vertexMap[closestIndices[k]])]
                    /\ pc' = "influences"
                    /\ error' = "none"
        /\ UNCHANGED inst

\* PointOnSurface.transfer: the hits of the target points on the cached faces
\* (no face to hit gives no hit)
Hits(kind, indices) ==
    IF inst.faceIndices = {} THEN <<>>
    ELSE [k \in 1..Len(indices) |->
             ClosestPointOnSurface(TgtPos(kind)[indices[k]], inst.faceIndices)]

\* PointOnSurface.transfer, up to the loop
PointOnSurfaceBegin ==
    \E kind \in TargetKinds, indices \in TargetLists,
       callback \in NotifyChoices :
        /\ StartCall("PointOnSurface", kind, TgtMaxInfluences(kind), indices, callback)
        /\ updates' = <<>>
        /\ i' = 1
        /\ IF Len(indices) = 0
           THEN Raise("ZeroDivisionError")
           ELSE /\ pc' = IF Len(Hits(kind, indices)) = 0 THEN "influences" ELSE "loop"
                /\ error' = "none"
        /\ UNCHANGED inst

\* PointOnSurface.transfer, one iteration of the loop
PointOnSurfaceStep ==
    /\ pc = "loop"
    /\ alg = "PointOnSurface"
    /\ LET vertexIndex == vertexIndices[i]
           hit == Hits(otherKind, vertexIndices)[i]
           faceVertexIndices == hit.faceVertexIndices
           numFaceVertexIndices == Len(faceVertexIndices)
           vertexWeights == [k \in 1..numFaceVertexIndices |-> SrcWeights(faceVertexIndices[k])]
           distances == [k \in 1..numFaceVertexIndices |->
                            Distance(hit.point, hit.faceVertexPoints[k])]
       IN  /\ updates' = Put(updates, vertexIndex,
                  IF numFaceVertexIndices = 3
                  THEN BarycentricWeights(faceVertexIndices, hit.baryCoords)
                  ELSE IF numFaceVertexIndices = 4
                  THEN BilinearWeights(faceVertexIndices, hit.biCoords)
                  ELSE InverseDistanceWeights(vertexWeights, distances, DefaultPower))
           /\ progress' = IF Callable(notify)
                          THEN Append(progress,
                                 Percent(RMul(Int2Rat(i), ProgressFactor(Len(vertexIndices)))))
                          ELSE progress
           /\ i' = i + 1
           /\ pc' = IF i = Len(vertexIndices) THEN "influences" ELSE "loop"
    /\ UNCHANGED <<grow, window, host, query, last, alg, inst, ctorArgs, ctorError, calls, otherKind, otherWeights, maxInfluences,
                   vertexIndices, notify, normalizedUpdates, missing, influenceMap, applied,
                   error>>

\* the triangle of the triangulated mesh that a hit lies on (the faces are
\* cut into fans from their first vertex), and the coordinates of the hit on it
TriangleOfHit(hit) ==
    LET vs == hit.faceVertexIndices
        k == Min({j \in 2..(Len(vs) - 1) : hit.point <= srcPos[vs[j + 1]]})
        a == vs[1]
        b == vs[k]
        c == vs[k + 1]
        t == Rat(hit.point - srcPos[a], srcPos[b] - srcPos[a])
        u == Rat(hit.point - srcPos[b], srcPos[c] - srcPos[b])
    IN  [triangleVertexIndices |-> <<a, b, c>>,
         hitBary |-> IF hit.point <= srcPos[b] THEN <<RSub(One, t), t, Zero>>
                     ELSE <<Zero, RSub(One, u), u>>]

\* PointOnSurface.transfer of methods/, up to the influence map: every hit is
\* resolved on its triangle
MethodsPointOnSurfaceBegin ==
    \E kind \in TargetKinds, indices \in TargetLists :
        /\ StartCall("MethodsPointOnSurface", kind, TgtMaxInfluences(kind), indices, "none")
        /\ i' = 1
        /\ LET hits == Hits(kind, indices)
           IN  updates' = [v \in {indices[k] : k \in 1..Len(hits)} |->
                              LET k == Min({m \in 1..Len(hits) : indices[m] = v})
                                  triangle == TriangleOfHit(hits[k])
                              IN  BarycentricWeights(triangle.triangleVertexIndices,
                                                     triangle.hitBary)]
        /\ pc' = "influences"
        /\ error' = "none"
        /\ UNCHANGED inst

\* computeWeight with the falloff's sign lost: 2 ** falloff for 2 ** -falloff
ComputeWeightGrowing(distance, maxDistance, falloff) ==
    IF ~(RLeq(Zero, distance) /\ RLeq(distance, maxDistance)) THEN Zero
    ELSE LET weight == RDiv(distance, maxDistance)
             pow == RPow(Int2Rat(2), falloff)
         IN  RSub(One, RDiv(weight,
                   RAdd(RMul(RSub(pow, One), RSub(One, weight)), One)))

\* SkinWrap.computeWeight
ComputeWeight(distance, maxDistance, falloff) ==
    IF ~(RLeq(Zero, distance) /\ RLeq(distance, maxDistance)) THEN Zero
    ELSE LET weight == RDiv(distance, maxDistance)
             pow == RDiv(One, RPow(Int2Rat(2), falloff))
         IN  RSub(One, RDiv(weight,
                   RAdd(RMul(RSub(pow, One), RSub(One, weight)), One)))

\* SkinWrap.initializeControlPoint: the faces grown around the vertex
RECURSIVE GrowFaces(_, _)
GrowFaces(faceIndices, rounds) ==
    IF rounds <= 0 THEN faceIndices
    ELSE GrowFaces(faceIndices \cup ConnectedFacesOfFaces(faceIndices), rounds - 1)

ControlPointFaces(vertexIndex, faceLimit) ==
    GrowFaces(ConnectedFacesOfVertex(vertexIndex), faceLimit - 1)

\* the slot of a control point that is not initialized yet
NoControlPoint ==
    [index |-> -1, point |-> 0, radius |-> Zero, vertexIndices |-> <<>>, vertexWeights |-> <<>>]

\* SkinWrap.initializeControlPoint, once the edge count is known to be positive
InitializeControlPoint(vertexIndex, instance) ==
    LET edgeIndices == ConnectedEdges(ControlPointFaces(vertexIndex, instance.faceLimit))
        edgeCount == Cardinality(edgeIndices)
        distance == RSum([e \in edgeIndices |-> Int2Rat(EdgeLength(e))], edgeIndices)
        radius == RMul(RDiv(distance, Int2Rat(edgeCount)), instance.distanceInfluence)
        vertexPoint == srcPos[vertexIndex]
        closestIndices == QueryBall(instance.otherPoints, vertexPoint, radius)
    IN  [index |-> vertexIndex,
         point |-> vertexPoint,
         radius |-> radius,
         vertexIndices |-> [k \in 1..Len(closestIndices) |->
                               instance.otherVertexMap[closestIndices[k]]],
         vertexWeights |-> [k \in 1..Len(closestIndices) |->
                               ComputeWeight(
                                   Int2Rat(Distance(vertexPoint,
                                                    instance.otherPoints[closestIndices[k] + 1])),
                                   radius, instance.falloff)]]

EdgeCount(vertexIndex, faceLimit) ==
    Cardinality(ConnectedEdges(ControlPointFaces(vertexIndex, faceLimit)))

\* SkinWrap.transfer, up to the first loop
SkinWrapBegin ==
    \E kind \in TargetKinds, indices \in TargetLists,
       callback \in NotifyChoices :
        /\ StartCall("SkinWrap", kind, TgtMaxInfluences(kind), indices, callback)
        /\ updates' = <<>>
        /\ i' = 1
        /\ inst' = [inst EXCEPT
                        !.otherPoints = ControlPoints(TgtPos(kind), indices),
                        !.otherVertexMap = Enumerate(indices),
                        !.controlPoints = [k \in 1..Len(inst.vertexIndices) |-> NoControlPoint]]
        /\ IF Len(inst.vertexIndices) = 0
           THEN Raise("ZeroDivisionError")
           ELSE pc' = "setup" /\ error' = "none"

\* SkinWrap.transfer, one iteration of the first loop
SkinWrapSetup ==
    /\ pc = "setup"
    /\ LET vertexIndex == inst.vertexIndices[i]
           numControlPoints == Len(inst.vertexIndices)
       IN  IF EdgeCount(vertexIndex, inst.faceLimit) = 0
           THEN /\ Raise("ZeroDivisionError")
                /\ UNCHANGED <<inst, progress, i>>
           ELSE /\ inst' = [inst EXCEPT !.controlPoints[i] = InitializeControlPoint(vertexIndex, inst)]
                /\ progress' = IF Callable(notify)
                               THEN Append(progress,
                                      Percent(RMul(RMul(Int2Rat((i - 1) + 1),
                                                        ProgressFactor(numControlPoints)),
                                                   <<1, 2>>)))
                               ELSE progress
                /\ i' = IF i = numControlPoints THEN 1 ELSE i + 1
                /\ pc' = IF i = numControlPoints THEN "accumulate" ELSE "setup"
                /\ error' = "none"
    /\ UNCHANGED <<grow, window, host, query, last, alg, ctorArgs, ctorError, calls, otherKind, otherWeights, maxInfluences,
                   vertexIndices, notify, updates, normalizedUpdates, missing, influenceMap,
                   applied>>

\* the inner loops with an assignment for the +=: the last control point
\* that reaches a vertex decides its update
RECURSIVE AccumulateLast(_, _, _)
AccumulateLast(acc, controlPoint, k) ==
    IF k > Len(controlPoint.vertexIndices) THEN acc
    ELSE LET vertexIndex == controlPoint.vertexIndices[k]
             vertexWeight == controlPoint.vertexWeights[k]
             source == SrcWeights(controlPoint.index)
             new == [j \in DOMAIN source |-> RMul(source[j], vertexWeight)]
         IN  AccumulateLast(Put(acc, vertexIndex, new), controlPoint, k + 1)

\* the inner loops of the second loop: the weights of the control point's
\* vertex, scaled, are added to the updates of the vertices it affects
RECURSIVE Accumulate(_, _, _)
Accumulate(acc, controlPoint, k) ==
    IF k > Len(controlPoint.vertexIndices) THEN acc
    ELSE LET vertexIndex == controlPoint.vertexIndices[k]
             vertexWeight == controlPoint.vertexWeights[k]
             source == SrcWeights(controlPoint.index)
             old == IF vertexIndex \in DOMAIN acc THEN acc[vertexIndex] ELSE <<>>
             new == [j \in DOMAIN old \cup DOMAIN source |->
                        IF j \in DOMAIN source
                        THEN RAdd(Get(old, j), RMul(source[j], vertexWeight))
                        ELSE old[j]]
         IN  Accumulate(Put(acc, vertexIndex, new), controlPoint, k + 1)

\* SkinWrap.transfer, one iteration of the second loop
SkinWrapAccumulate ==
    /\ pc = "accumulate"
    /\ LET numControlPoints == Len(inst.vertexIndices)
       IN  /\ updates' = Accumulate(updates, inst.controlPoints[i], 1)
           /\ progress' = IF Callable(notify)
                          THEN Append(progress,
                                 50 + Percent(RMul(RMul(Int2Rat(i + 1),
                                                        ProgressFactor(numControlPoints)),
                                                   <<1, 2>>)))
                          ELSE progress
           /\ i' = i + 1
           /\ pc' = IF i = numControlPoints THEN "normalize" ELSE "accumulate"
    /\ UNCHANGED <<grow, window, host, query, last, alg, inst, ctorArgs, ctorError, calls, otherKind, otherWeights, maxInfluences,
                   vertexIndices, notify, normalizedUpdates, missing, influenceMap, applied,
                   error>>

\* the updates that normalize: a TypeError skips the vertex
Normalized(accumulated, limit) ==
    LET ok == {v \in DOMAIN accumulated :
                  NormalizeWeights(accumulated[v], limit).error = "none"}
    IN  [v \in ok |-> NormalizeWeights(accumulated[v], limit).weights]

\* [vertexIndex for vertexIndex in vertexIndices if normalizedUpdates.get(vertexIndex) is None]
Missing(indices, normalized) ==
    SelectSeq(indices, LAMBDA v : v \notin DOMAIN normalized)

\* SkinWrap.transfer, the normalization and the list of the missing vertices
SkinWrapNormalize ==
    /\ pc = "normalize"
    /\ normalizedUpdates' = Normalized(updates, maxInfluences)
    /\ missing' = Missing(vertexIndices, normalizedUpdates')
    /\ pc' = IF Len(missing') > 0 THEN "fallback" ELSE "influences"
    /\ UNCHANGED <<grow, window, host, query, last, alg, inst, ctorArgs, ctorError, calls, otherKind, otherWeights, maxInfluences,
                   vertexIndices, notify, i, updates, influenceMap, applied, progress, error>>

\* SkinWrap.closestVertexWeights, once its names resolve
ClosestVertexWeights(kind, indices) ==
    LET pointTree == ControlPoints(srcPos, inst.vertexIndices)
        closestIndices == [k \in 1..Len(indices) |->
                              QueryNearest(pointTree, TgtPos(kind)[indices[k]])]
    IN  [v \in SeqToSet(indices) |->
            LET k == Max({m \in 1..Len(indices) : indices[m] = v})
            IN  SrcWeights(inst.vertexMap[closestIndices[k]])]

\* SkinWrap.transfer, the closest-point fallback for the missing vertices
SkinWrapFallback ==
    /\ pc = "fallback"
    /\ IF "localVertexMap" \notin Attributes(alg)
       THEN /\ Raise("AttributeError")
            /\ UNCHANGED normalizedUpdates
       ELSE /\ normalizedUpdates' =
                   [v \in DOMAIN normalizedUpdates \cup SeqToSet(missing) |->
                       IF v \in SeqToSet(missing)
                       THEN ClosestVertexWeights(otherKind, missing)[v]
                       ELSE normalizedUpdates[v]]
            /\ pc' = "influences"
            /\ error' = "none"
    /\ UNCHANGED <<grow, window, host, query, last, alg, inst, ctorArgs, ctorError, calls, otherKind, otherWeights, maxInfluences,
                   vertexIndices, notify, i, updates, missing, influenceMap, applied,
                   progress>>

\* the influence ids the influence map is asked for
RequestedInfluenceIds ==
    IF alg = "PointCloud"
    THEN UNION {DOMAIN SrcWeights(v) : v \in SeqToSet(inst.vertexIndices)}
    ELSE IF alg = "SkinWrap" THEN InfluenceIds(normalizedUpdates)
    ELSE InfluenceIds(updates)

\* influenceMap = self.skin.createInfluenceMap(otherSkin, influenceIds=influenceIds)
CreateInfluenceMapStep ==
    /\ pc = "influences"
    /\ influenceMap' = CreateInfluenceMap(RequestedInfluenceIds)
    /\ pc' = "remap"
    /\ UNCHANGED <<grow, window, host, query, last, alg, inst, ctorArgs, ctorError, calls, otherKind, otherWeights, maxInfluences,
                   vertexIndices, notify, i, updates, normalizedUpdates, missing, applied,
                   progress, error>>

\* updates = self.skin.remapVertexWeights(updates, influenceMap)
RemapStep ==
    /\ pc = "remap"
    /\ IF alg = "SkinWrap"
       THEN /\ normalizedUpdates' = RemapVertexWeights(normalizedUpdates, influenceMap)
            /\ UNCHANGED updates
       ELSE /\ updates' = RemapVertexWeights(updates, influenceMap)
            /\ UNCHANGED normalizedUpdates
    /\ pc' = "apply"
    /\ UNCHANGED <<grow, window, host, query, last, alg, inst, ctorArgs, ctorError, calls, otherKind, otherWeights, maxInfluences,
                   vertexIndices, notify, i, missing, influenceMap, applied, progress, error>>

\* a transfer that has a batch only on the first use of its instance
BatchOnFirstUse ==
    IF calls > 0 THEN <<>> ELSE IF alg = "SkinWrap" THEN normalizedUpdates ELSE updates

\* the batch the method hands to the target skin
Batch == IF alg = "SkinWrap" THEN normalizedUpdates ELSE updates

\* a transfer that also writes the updates it has so far from inside its loop
ApplyStepInsideLoop ==
    /\ pc \in {"apply", "loop"}
    /\ Len(applied) = 0
    /\ otherWeights' = ApplyVertexWeights(otherWeights, Batch)
    /\ applied' = Append(applied, Batch)
    /\ pc' = IF pc = "apply" THEN "done" ELSE pc
    /\ UNCHANGED <<grow, window, host, query, last, alg, inst, ctorArgs, ctorError, calls, otherKind, maxInfluences,
                   vertexIndices, notify, i, updates, normalizedUpdates, missing,
                   influenceMap, progress, error>>

\* a transfer that needs its callback: without one it applies no update
ApplyStepWhenNotified ==
    /\ pc = "apply"
    /\ LET batch == IF Callable(notify) THEN Batch ELSE <<>>
       IN  /\ otherWeights' = ApplyVertexWeights(otherWeights, batch)
           /\ applied' = Append(applied, batch)
    /\ pc' = "done"
    /\ UNCHANGED <<grow, window, host, query, last, alg, inst, ctorArgs, ctorError, calls, otherKind,
                   maxInfluences, vertexIndices, notify, i, updates, normalizedUpdates,
                   missing, influenceMap, progress, error>>

\* otherSkin.applyVertexWeights(updates)
ApplyStep ==
    /\ pc = "apply"
    /\ otherWeights' = ApplyVertexWeights(otherWeights, Batch)
    /\ applied' = Append(applied, Batch)
    /\ pc' = "done"
    /\ UNCHANGED <<grow, window, host, query, last, alg, inst, ctorArgs, ctorError, calls, otherKind, maxInfluences, vertexIndices,
                   notify, i, updates, normalizedUpdates, missing, influenceMap, progress,
                   error>>

\* the call returns, or its exception reaches the caller; the instance stays
Return ==
    /\ pc \in {"done", "raised"}
    /\ pc' = "idle"
    /\ calls' = calls + 1
    /\ otherKind' = "none"
    /\ otherWeights' = <<>>
    /\ maxInfluences' = 0
    /\ vertexIndices' = <<>>
    /\ notify' = "none"
    /\ i' = 0
    /\ updates' = <<>>
    /\ normalizedUpdates' = <<>>
    /\ missing' = <<>>
    /\ influenceMap' = <<>>
    /\ applied' = <<>>
    /\ progress' = <<>>
    /\ error' = "none"
    /\ \E keep \in BOOLEAN :
          last' = IF keep
                  THEN [kind |-> otherKind, limit |-> maxInfluences,
                        indices |-> vertexIndices, callback |-> notify,
                        subset |-> inst.vertexIndices, error |-> error,
                        applied |-> applied]
                  ELSE NoLast
    /\ UNCHANGED <<grow, window, host, query, alg, inst, ctorArgs, ctorError>>

\* the caller appends a vertex to the list it gave to the constructor, once a
\* transfer has run: the instance holds that very list
\* (self._vertexIndices = vertexIndices), and its map and its caches stay
CallerAppendsVertex ==
    /\ pc = "idle"
    /\ calls > 0
    /\ ctorArgs.numArgs = 2
    /\ inst.vertexIndicesType = "list"
    /\ inst.vertexIndices = ctorArgs.subset
    /\ SrcCandidates \ SeqToSet(inst.vertexIndices) # {}
    /\ inst' = [inst EXCEPT !.vertexIndices =
                    Append(@, Min(SrcCandidates \ SeqToSet(inst.vertexIndices)))]
    /\ UNCHANGED <<grow, window, host, query, last, pc, alg, ctorArgs, ctorError, calls, callVars>>

Next ==
    \/ Construct
    \/ CallerAppendsVertex
    \/ ClosestPointBegin
    \/ ClosestPointStep
    \/ InverseDistanceBegin
    \/ InverseDistanceStep
    \/ PointCloudBegin
    \/ PointOnSurfaceBegin
    \/ PointOnSurfaceStep
    \/ MethodsPointOnSurfaceBegin
    \/ SkinWrapBegin
    \/ SkinWrapSetup
    \/ SkinWrapAccumulate
    \/ SkinWrapNormalize
    \/ SkinWrapFallback
    \/ CreateInfluenceMapStep
    \/ RemapStep
    \/ ApplyStep
    \/ Return

Spec == Init /\ [][Next]_vars

(***************************************************************************)
(* SkinWrap.computeWeight on its own: one call with any distance, radius   *)
(* and falloff.                                                            *)
(***************************************************************************)
\* distances in steps of one half, from below zero to beyond every radius
Distances == {Rat(n, 2) : n \in (-2)..(2 * MaxRadius + 2)}
Radii == {Int2Rat(n) : n \in (-1)..MaxRadius}
Falloffs == (-1)..MaxFalloff

InitComputeWeight ==
    /\ pc = "new"
    /\ alg = "none"
    /\ inst = EmptyInstance
    /\ ctorArgs = [numArgs |-> 0, skinOk |-> FALSE, subsetType |-> "list", subset |-> <<>>]
    /\ ctorError = "none"
    /\ calls = 0
    /\ otherKind = "none"
    /\ otherWeights = <<>>
    /\ maxInfluences = 0
    /\ vertexIndices = <<>>
    /\ notify = "none"
    /\ i = 0
    /\ updates = <<>>
    /\ normalizedUpdates = <<>>
    /\ missing = <<>>
    /\ influenceMap = <<>>
    /\ applied = <<>>
    /\ progress = <<>>
    /\ error = "none"
    /\ host = "unknown"
    /\ last = NoLast
    /\ grow = NoGrow
    /\ window = NewWindow
    /\ \E distance \in Distances, maxDistance \in Radii, falloff \in Falloffs :
           query = [NoQuery EXCEPT !.distance = distance, !.maxDistance = maxDistance,
                                   !.falloff = falloff]

\* the call: a distance inside [0, radius] with a radius of zero divides by
\* zero, any other call returns
ComputeWeightStep ==
    /\ query.outcome = "none"
    /\ query' =
           IF /\ RLeq(Zero, query.distance)
              /\ RLeq(query.distance, query.maxDistance)
              /\ query.maxDistance = Zero
           THEN [query EXCEPT !.outcome = "ZeroDivisionError"]
           ELSE [query EXCEPT !.outcome = "returned",
                              !.weight = ComputeWeight(query.distance, query.maxDistance,
                                                       query.falloff)]
    /\ UNCHANGED <<grow, window, pc, alg, inst, ctorArgs, ctorError, calls, callVars, host, last>>

SpecComputeWeight == InitComputeWeight /\ [][ComputeWeightStep]_vars

(***************************************************************************)
(* The face loop of SkinWrap.initializeControlPoint on its own: one vertex *)
(* of the source mesh, one face limit (the dialog of the window gives 0 or *)
(* more).                                                                  *)
(***************************************************************************)
FaceLimits == 0..MaxFaceLimit

InitGrowFaces ==
    /\ pc = "new"
    /\ alg = "none"
    /\ inst = EmptyInstance
    /\ ctorArgs = [numArgs |-> 0, skinOk |-> FALSE, subsetType |-> "list", subset |-> <<>>]
    /\ ctorError = "none"
    /\ calls = 0
    /\ otherKind = "none"
    /\ otherWeights = <<>>
    /\ maxInfluences = 0
    /\ vertexIndices = <<>>
    /\ notify = "none"
    /\ i = 0
    /\ updates = <<>>
    /\ normalizedUpdates = <<>>
    /\ missing = <<>>
    /\ influenceMap = <<>>
    /\ applied = <<>>
    /\ progress = <<>>
    /\ error = "none"
    /\ host = "unknown"
    /\ last = NoLast
    /\ query = NoQuery
    /\ window = NewWindow
    /\ \E vertexIndex \in SrcVerts, faceLimit \in FaceLimits :
           grow = [NoGrow EXCEPT !.vertexIndex = vertexIndex, !.faceLimit = faceLimit,
                                 !.pc = "start"]

\* faceIndices = set(self.mesh.getConnectedFaces(vertexIndex, ...))
GrowFacesBegin ==
    /\ grow.pc = "start"
    /\ grow' = [grow EXCEPT !.faceIndices = ConnectedFacesOfVertex(grow.vertexIndex),
                            !.before = ConnectedFacesOfVertex(grow.vertexIndex),
                            !.i = 1,
                            !.pc = "loop"]
    /\ UNCHANGED <<window, pc, alg, inst, ctorArgs, ctorError, calls, callVars, host, last,
                   query>>

\* for i in range(1, self.faceLimit, 1), with one more round than the range
\* has
GrowFacesStepToLimit ==
    /\ grow.pc = "loop"
    /\ grow' = IF grow.i <= grow.faceLimit
               THEN [grow EXCEPT !.faceIndices = @ \cup ConnectedFacesOfFaces(@),
                                 !.before = grow.faceIndices,
                                 !.rounds = @ + 1,
                                 !.i = @ + 1]
               ELSE [grow EXCEPT !.pc = "done"]
    /\ UNCHANGED <<window, pc, alg, inst, ctorArgs, ctorError, calls, callVars, host, last,
                   query>>

\* for i in range(1, self.faceLimit, 1): one round, or the end of the loop
GrowFacesStep ==
    /\ grow.pc = "loop"
    /\ grow' = IF grow.i < grow.faceLimit
               THEN [grow EXCEPT !.faceIndices = @ \cup ConnectedFacesOfFaces(@),
                                 !.before = grow.faceIndices,
                                 !.rounds = @ + 1,
                                 !.i = @ + 1]
               ELSE [grow EXCEPT !.pc = "done"]
    /\ UNCHANGED <<window, pc, alg, inst, ctorArgs, ctorError, calls, callVars, host, last,
                   query>>

NextGrowFaces ==
    \/ GrowFacesBegin
    \/ GrowFacesStep

SpecGrowFaces == InitGrowFaces /\ [][NextGrowFaces]_vars

(***************************************************************************)
(* The transfer window (ui/qeztransferweights.py): the handlers of its     *)
(* buttons, and the user's changes of the scene selection, the current     *)
(* row and the method.                                                     *)
(***************************************************************************)
\* self.methodComboBox.addItems([...]) and self._methods
MethodNames ==
    <<"Closest Point", "Inverse Distance", "Point on Surface", "Skin Wrap", "Robust Inpaint">>
Methods == <<"ClosestPoint", "InverseDistance", "PointOnSurface", "SkinWrap">>

\* the objects of the scene: two skinned meshes and one without a skin
SceneObjects == {"meshA", "meshB", "cube"}
Skinned(obj) == obj \in {"meshA", "meshB"}
\* the selections the user makes: nothing, one object, or a skinned mesh
\* followed by a second object
Selections ==
    {<<>>} \cup {<<obj>> : obj \in SceneObjects}
           \cup {<<"meshA", obj>> : obj \in SceneObjects \ {"meshA"}}

\* what a failed trySetObject leaves in the function set: the object it was
\* bound to before, or none
FailedBindOutcomes == {"keeps", "resets"}

RemoveAt(s, k) == [n \in 1..(Len(s) - 1) |-> IF n < k THEN s[n] ELSE s[n + 1]]

\* the user selects objects in the scene
SelectObjects ==
    \E selection \in Selections :
        /\ selection # window.selection
        /\ window' = [window EXCEPT !.selection = selection, !.event = NoEvent]
        /\ UNCHANGED <<grow, pc, alg, inst, ctorArgs, ctorError, calls, callVars, host, last,
                       query>>

\* the user picks an entry of the method combo box
ChooseMethod ==
    \E index \in 0..(Len(MethodNames) - 1) :
        /\ index # window.currentMethod
        /\ window' = [window EXCEPT !.currentMethod = index, !.event = NoEvent]
        /\ UNCHANGED <<grow, pc, alg, inst, ctorArgs, ctorError, calls, callVars, host, last,
                       query>>

\* the user clicks a row of the clipboard table
ClickRow ==
    \E row \in 0..(Len(window.rows) - 1) :
        /\ row # window.currentRow
        /\ window' = [window EXCEPT !.currentRow = row, !.event = NoEvent]
        /\ UNCHANGED <<grow, pc, alg, inst, ctorArgs, ctorError, calls, callVars, host, last,
                       query>>

\* addRow(skin): the clipboard item holds the function set it is given, not
\* a copy; its influences are read from the object bound at that time, whose
\* name the new row shows; the new row becomes the current row
AddRow(w, skin) ==
    LET clipboardItem == [skin |-> skin, influences |-> w.handles[skin]]
    IN  [w EXCEPT !.clipboard = Append(@, clipboardItem),
                  !.rows = Append(@, [name |-> w.handles[skin], item |-> clipboardItem]),
                  !.currentRow = Len(w.rows)]

\* the loop of on_extractPushButton_clicked over the selection, with the one
\* function set made before the loop
RECURSIVE ExtractLoop(_, _, _, _)
ExtractLoop(w, skin, selection, failure) ==
    IF Len(selection) = 0 THEN w
    ELSE LET obj == Head(selection)
         IN  IF Skinned(obj)
             THEN ExtractLoop(AddRow([w EXCEPT !.handles[skin] = obj], skin), skin,
                              Tail(selection), failure)
             ELSE ExtractLoop([w EXCEPT !.handles[skin] =
                                   IF failure = "resets" THEN "none" ELSE @],
                              skin, Tail(selection), failure)

\* on_extractPushButton_clicked
ExtractClicked ==
    /\ Len(window.handles) < MaxExtracts
    /\ Len(window.rows) + Len(window.selection) <= MaxRows
    /\ \E failure \in FailedBindOutcomes :
           LET skin == Len(window.handles) + 1
               made == [window EXCEPT !.handles = Append(@, "none")]
               after == ExtractLoop(made, skin, window.selection, failure)
           IN  window' = [after EXCEPT !.event = [NoEvent EXCEPT !.handler = "extract"]]
    /\ UNCHANGED <<grow, pc, alg, inst, ctorArgs, ctorError, calls, callVars, host, last,
                   query>>

\* the current row of a table of rowCount rows once the row is removed: a
\* current row below moves up with its item, a removed current row gives way
\* to the row that follows it, or to the one before it
RowAfterRemoval(current, row, rowCount) ==
    IF row < 0 \/ row >= rowCount \/ current < row THEN current
    ELSE IF current > row THEN current - 1
    ELSE IF row < rowCount - 1 THEN row
    ELSE row - 1

\* removeRow(row): the table ignores a row it does not have; del
\* self._clipboard[row] takes a negative row from the end and raises
\* IndexError beyond the list; selectRow makes the row before the current
\* row when the table has one
RemoveRow(w, row) ==
    LET rowCount == Len(w.rows)
        clipboardCount == Len(w.clipboard)
        rows == IF 0 <= row /\ row < rowCount THEN RemoveAt(w.rows, row + 1) ELSE w.rows
        at == IF row < 0 THEN clipboardCount + row + 1 ELSE row + 1
        raised == at < 1 \/ at > clipboardCount
        clipboard == IF raised THEN w.clipboard ELSE RemoveAt(w.clipboard, at)
    IN  [w EXCEPT !.rows = rows,
                  !.clipboard = clipboard,
                  !.currentRow = IF ~raised /\ 0 <= row - 1 /\ row - 1 < Len(rows)
                                 THEN row - 1
                                 ELSE RowAfterRemoval(w.currentRow, row, rowCount),
                  !.event = [NoEvent EXCEPT !.handler = "delete",
                                            !.error = IF raised THEN "IndexError"
                                                      ELSE "none"]]

\* on_deletePushButton_clicked for the button of a row: indexAt finds the
\* cell of the button, or no cell (row -1)
DeleteClicked ==
    \E button \in 0..(Len(window.rows) - 1), found \in BOOLEAN :
        /\ window' = RemoveRow(window, IF found THEN button ELSE -1)
        /\ UNCHANGED <<grow, pc, alg, inst, ctorArgs, ctorError, calls, callVars, host, last,
                       query>>

\* currentClipboardItem(): the row that stands for None, or the place of
\* the item in the clipboard
CurrentClipboardItem(w) ==
    IF 0 <= w.currentRow /\ w.currentRow < Len(w.clipboard) THEN w.currentRow + 1 ELSE 0

\* on_transferPushButton_clicked without the test of the selection count: the
\* first selected object is the target
TransferAnySelection(w) ==
    LET selection == w.selection
        clipboardItem == CurrentClipboardItem(w)
        returned == [NoEvent EXCEPT !.handler = "transfer"]
    IN  IF Len(selection) = 0 THEN returned
        ELSE IF ~Skinned(selection[1]) THEN returned
        ELSE IF clipboardItem = 0 THEN returned
        ELSE IF w.currentMethod + 1 > Len(Methods)
        THEN [returned EXCEPT !.error = "IndexError"]
        ELSE IF w.handles[w.clipboard[clipboardItem].skin] = "none"
        THEN [returned EXCEPT !.error = "TypeError", !.cls = Methods[w.currentMethod + 1]]
        ELSE [returned EXCEPT !.constructed = TRUE, !.called = TRUE,
                              !.cls = Methods[w.currentMethod + 1]]

\* on_transferPushButton_clicked: the three early returns, the lookup of the
\* class, the constructor (a TypeError for a function set that is bound to
\* nothing) and the call of transfer
Transfer(w) ==
    LET selection == w.selection
        clipboardItem == CurrentClipboardItem(w)
        returned == [NoEvent EXCEPT !.handler = "transfer"]
    IN  IF Len(selection) # 1 THEN returned
        ELSE IF ~Skinned(selection[1]) THEN returned
        ELSE IF clipboardItem = 0 THEN returned
        ELSE IF w.currentMethod + 1 > Len(Methods)
        THEN [returned EXCEPT !.error = "IndexError"]
        ELSE IF w.handles[w.clipboard[clipboardItem].skin] = "none"
        THEN [returned EXCEPT !.error = "TypeError", !.cls = Methods[w.currentMethod + 1]]
        ELSE [returned EXCEPT !.constructed = TRUE, !.called = TRUE,
                              !.cls = Methods[w.currentMethod + 1]]

TransferClicked ==
    /\ window' = [window EXCEPT !.event = Transfer(window)]
    /\ window' # window
    /\ UNCHANGED <<grow, pc, alg, inst, ctorArgs, ctorError, calls, callVars, host, last,
                   query>>

NextWindow ==
    \/ SelectObjects
    \/ ChooseMethod
    \/ ClickRow
    \/ ExtractClicked
    \/ DeleteClicked
    \/ TransferClicked

SpecWindow == Init /\ [][NextWindow]_vars

(***************************************************************************)
(* Properties.                                                             *)
(***************************************************************************)
InCall == pc \in {"loop", "setup", "accumulate", "normalize", "fallback", "influences",
                  "remap", "apply", "raised"}
Ended == pc \in {"done", "raised"}

\* C1: a transfer call writes to the target skin at most once, through one
\* applyVertexWeights call made after every update is computed and remapped;
\* while the call runs, and when it has raised, nothing has been applied and
\* the target skin's weights are as they were.
C1_SingleWriteAtEnd ==
    /\ Len(applied) <= 1
    /\ InCall => (Len(applied) = 0 /\ otherWeights = TgtInitialWeights(otherKind))
    /\ Len(applied) = 1 =>
          /\ pc = "done"
          /\ InfluenceIds(applied[1]) \subseteq TgtInfluences
          /\ DOMAIN applied[1] \subseteq SeqToSet(vertexIndices)
          /\ alg = "InverseDistance" => i = Len(vertexIndices) + 1
          /\ otherWeights = ApplyVertexWeights(TgtInitialWeights(otherKind), applied[1])

C1_Witness ==
    /\ pc = "done"
    /\ alg = "InverseDistance"
    /\ Len(vertexIndices) = 2
    /\ Len(applied) = 1
    /\ DOMAIN applied[1] = SeqToSet(vertexIndices)
    /\ otherWeights # TgtInitialWeights(otherKind)

\* the source vertices of the instance all have edges to estimate a radius from
PositiveRadii == \A k \in 1..Len(inst.vertexIndices) :
                    EdgeCount(inst.vertexIndices[k], inst.faceLimit) > 0

\* C2: with a non-empty source subset and positive radii, a Skin Wrap
\* transfer ends with a batch applied that holds an update for every vertex
\* of the requested target vertex list.
C2_SkinWrapCoverage ==
    (alg = "SkinWrap" /\ Ended /\ Len(inst.vertexIndices) > 0 /\ PositiveRadii) =>
        (Len(applied) = 1 /\ DOMAIN applied[1] = SeqToSet(vertexIndices))

\* C3: a Closest Point transfer (non-empty source subset, non-empty target
\* list) ends with a batch applied whose vertices are exactly the requested
\* target vertices.
C3_ClosestPointEveryTarget ==
    (alg \in {"ClosestPoint", "PointCloud"} /\ Ended
        /\ Len(inst.vertexIndices) > 0 /\ Len(vertexIndices) > 0) =>
        (Len(applied) = 1 /\ DOMAIN applied[1] = SeqToSet(vertexIndices))

\* C4: the values given to the progress callback are non-decreasing and every
\* one of them lies in [0, 100].
C4_ProgressBounded ==
    \A k \in 1..Len(progress) :
        /\ 0 <= progress[k] /\ progress[k] <= 100
        /\ k > 1 => progress[k - 1] <= progress[k]

C6_InfluenceCap ==
    \A k \in 1..Len(applied) : \A v \in DOMAIN applied[k] :
        NonZero(applied[k][v]) <= maxInfluences

\* the weights of a source vertex under the target's influence ids
SourceWeightsOnTarget(v) ==
    RemapWeights(SrcWeights(v), CreateInfluenceMap(DOMAIN SrcWeights(v)))

\* C7: a Closest Point transfer to an exact positional copy of the source,
\* over the same vertex subset, ends with every vertex given its own
\* original weight map.
C7_ClosestPointIdempotent ==
    (alg \in {"ClosestPoint", "PointCloud"} /\ Ended /\ otherKind = "copy"
        /\ Len(vertexIndices) > 0 /\ vertexIndices = inst.vertexIndices) =>
        /\ Len(applied) = 1
        /\ DOMAIN applied[1] = SeqToSet(vertexIndices)
        /\ \A v \in DOMAIN applied[1] : applied[1][v] = SourceWeightsOnTarget(v)

\* C8: an Inverse Distance transfer on an instance bound to an empty source
\* subset ends by raising EmptySourceSet, with nothing applied.
C8_InverseDistanceEmptySource ==
    (alg = "InverseDistance" /\ Ended /\ Len(inst.vertexIndices) = 0) =>
        (pc = "raised" /\ error = "EmptySourceSet" /\ Len(applied) = 0)

\* C9: a Skin Wrap transfer with no source data for the radius estimation
\* (an empty source subset, or a source vertex with no bounding edge) ends by
\* raising EmptySourceSet, with nothing applied.
C9_SkinWrapEmptySource ==
    (alg = "SkinWrap" /\ Ended /\ (Len(inst.vertexIndices) = 0 \/ ~PositiveRadii)) =>
        (pc = "raised" /\ error = "EmptySourceSet" /\ Len(applied) = 0)

\* the arguments that are not (skin) or (skin, list | tuple | set)
InvalidArguments(args) ==
    \/ args.numArgs \notin {1, 2}
    \/ ~args.skinOk
    \/ args.numArgs = 2 /\ args.subsetType \notin {"list", "tuple", "set"}

\* C10: a constructor given an argument count other than 1 or 2, a first
\* argument that is no skin, or a vertex subset that is no list, tuple or set
\* raises, and the instance has read and cached no source data: no skin or
\* mesh bound, no vertex subset, no positions, no tree, no faces.
C10_ConstructionValidates ==
    (pc # "new" /\ InvalidArguments(ctorArgs)) =>
        /\ pc = "failed"
        /\ ctorError = "TypeError"
        /\ inst = EmptyInstance

C10_Witness ==
    /\ pc = "failed"
    /\ alg = "PointOnSurface"
    /\ ctorArgs.numArgs = 2
    /\ ctorArgs.skinOk
    /\ ctorArgs.subsetType = "int"

\* the vertex subset the constructor's arguments bind
BoundSubset(args) ==
    IF args.numArgs = 1 THEN [k \in 1..Cardinality(SrcVerts) |-> k - 1] ELSE args.subset

\* C11: once constructed, the instance stays as its constructor left it: the
\* bound subset, the cached positions, the tree and the faces are the ones
\* built at construction, and no transfer call stores anything in the
\* instance.
C11_SourceStateFrozen ==
    pc \notin {"new", "failed"} =>
        \E options \in Options(alg) : inst = NewInstance(alg, ctorArgs, options)

\* C12: the vertex subset of an instance is the one bound at construction
\* whatever happens to the caller's list afterwards, and the local-to-global
\* map and the cached positions agree with it.
C12_SubsetSnapshot ==
    pc \notin {"new", "failed"} =>
        /\ inst.vertexIndices = BoundSubset(ctorArgs)
        /\ inst.vertexMap = Enumerate(inst.vertexIndices)
        /\ "points" \in inst.cached =>
               inst.vertexPoints = ControlPoints(srcPos, inst.vertexIndices)

\* the call that has ended repeats the recorded call: the same target skin
\* and vertex list, on an instance with the same vertex subset
RepeatsLast == Ended /\ last # NoLast /\ last.subset = inst.vertexIndices

\* C13: a call that repeats an earlier call of the same instance, with the
\* same notify, ends as that call did: the same exception or none, and the
\* same batch applied.
C13_Determinism ==
    (RepeatsLast /\ last.callback = notify) =>
        (error = last.error /\ applied = last.applied)

C13_Witness ==
    /\ RepeatsLast
    /\ last.callback = notify
    /\ alg = "SkinWrap"
    /\ pc = "done"
    /\ Len(vertexIndices) = 2
    /\ Len(applied) = 1
    /\ DOMAIN applied[1] = SeqToSet(vertexIndices)
    /\ applied = last.applied

\* C14: a call given a function or a value that is not callable as notify
\* ends as the same call without notify did, with the same batch applied;
\* nothing that is not callable is called.
C14_CallbackNotRequired ==
    /\ (RepeatsLast /\ last.callback = "none") =>
           (error = last.error /\ applied = last.applied)
    /\ notify # "callable" => progress = <<>>

C14_Witness ==
    /\ RepeatsLast
    /\ last.callback = "none"
    /\ notify = "callable"
    /\ alg = "PointOnSurface"
    /\ pc = "done"
    /\ Len(progress) = 2
    /\ Len(applied) = 1
    /\ applied = last.applied

\* C15: an Inverse Distance instance with the default power, bound to two
\* source vertices that lie at distances d and 3d from a target vertex (4 and
\* 12 on the line: the vertices 0 and 8, seen from the vertex 0 of the other
\* mesh) and carry one influence each, applies to that vertex the map with
\* 9/10 for the influence of the near vertex and 1/10 for that of the far one
\* (contributions 1/d^2 and 1/(9 d^2), normalized).
C15_InverseDistanceExample ==
    (/\ alg = "InverseDistance"
     /\ pc = "done"
     /\ inst.power = DefaultPower
     /\ SeqToSet(inst.vertexIndices) = {0, 8}
     /\ otherKind = "other"
     /\ 0 \in SeqToSet(vertexIndices)) =>
        applied[1][0] = (TgtId(0) :> <<9, 10>>) @@ (TgtId(1) :> <<1, 10>>)

C15_Witness ==
    /\ alg = "InverseDistance"
    /\ pc = "done"
    /\ inst.power = DefaultPower
    /\ inst.vertexIndices = <<0, 8>>
    /\ inst.vertexPoints = <<0, 16>>
    /\ otherKind = "other"
    /\ TgtPos(otherKind)[0] = 4
    /\ vertexIndices = <<0>>
    /\ Len(applied) = 1

\* C16: no Inverse Distance instance with a power of zero or less computes or
\* applies an update: the power is rejected at construction or when
\* transfer runs.
C16_PowerValidated ==
    (alg = "InverseDistance" /\ inst.power <= 0) =>
        (DOMAIN updates = {} /\ Len(applied) = 0)

\* C17: in a Closest Point transfer of an instance with source vertices, the
\* lookup of the local index in the local-to-global map never fails, and the
\* update of a target vertex is the weight map, as it is, of the bound vertex
\* at the local index of the nearest source point; the lookup in the Skin
\* Wrap fallback never fails either.
C17_ClosestPointLookup ==
    /\ (alg = "ClosestPoint" /\ Len(inst.vertexPoints) > 0) =>
          /\ error \notin {"AttributeError", "KeyError"}
          /\ pc = "influences" =>
                /\ DOMAIN updates = SeqToSet(vertexIndices)
                /\ \A v \in DOMAIN updates :
                      updates[v] = SrcWeights(inst.vertexMap[
                                     QueryNearest(inst.vertexPoints, TgtPos(otherKind)[v])])
    /\ alg = "SkinWrap" => error \notin {"AttributeError", "KeyError"}

\* C18: with a callback, Skin Wrap gives one value in [0, 50] per source
\* vertex during the setup, then one value in [50, 100] per control point
\* during the accumulation, and the last value it gives is 100.
C18_SkinWrapProgressHalves ==
    (alg = "SkinWrap" /\ notify = "callable") =>
        LET numControlPoints == Len(inst.vertexIndices)
        IN  /\ \A k \in 1..Len(progress) :
                  IF k <= numControlPoints
                  THEN 0 <= progress[k] /\ progress[k] <= 50
                  ELSE 50 <= progress[k] /\ progress[k] <= 100
            /\ pc \in {"normalize", "fallback", "influences", "remap", "apply", "done"} =>
                  /\ Len(progress) = 2 * numControlPoints
                  /\ progress[Len(progress)] = 100

\* the map of a hit by the number of vertices of its face: barycentric for
\* three, bilinear for four, the inverse distance from the hit point over the
\* vertices of the face, with the default power, for any other number
FaceWeights(hit) ==
    LET faceVertexIndices == hit.faceVertexIndices
        n == Len(faceVertexIndices)
    IN  IF n = 3 THEN BarycentricWeights(faceVertexIndices, hit.baryCoords)
        ELSE IF n = 4 THEN BilinearWeights(faceVertexIndices, hit.biCoords)
        ELSE InverseDistanceWeights(
                 [k \in 1..n |-> SrcWeights(faceVertexIndices[k])],
                 [k \in 1..n |-> Distance(hit.point, srcPos[faceVertexIndices[k]])],
                 DefaultPower)

\* C19: when the loop of a Point-on-Surface transfer has ended, every target
\* vertex with a hit has one update, the map its hit face's vertex count
\* selects.
C19_PointOnSurfaceBranches ==
    (alg \in {"PointOnSurface", "MethodsPointOnSurface"} /\ pc = "influences") =>
        LET hits == Hits(otherKind, vertexIndices)
        IN  /\ DOMAIN updates = {vertexIndices[k] : k \in 1..Len(hits)}
            /\ \A k \in 1..Len(hits) : updates[vertexIndices[k]] = FaceWeights(hits[k])

\* C20: a returned falloff weight is 0 for a distance below 0 or beyond the
\* radius; for a positive radius and a falloff of 0 or more it is 1 at
\* distance 0, 0 at the radius, within [0, 1], never larger at a larger
\* distance within the radius, the ramp 1 - d / radius at falloff 0, and
\* never larger at a larger falloff for a distance strictly inside the radius.
C20_ComputeWeightShape ==
    query.outcome # "none" =>
        LET d == query.distance
            radius == query.maxDistance
            falloff == query.falloff
        IN  /\ (RLess(d, Zero) \/ RLess(radius, d)) =>
                   (query.outcome = "returned" /\ query.weight = Zero)
            /\ (RLess(Zero, radius) /\ falloff >= 0 /\ RLeq(Zero, d) /\ RLeq(d, radius)) =>
                   /\ query.outcome = "returned"
                   /\ d = Zero => query.weight = One
                   /\ d = radius => query.weight = Zero
                   /\ RLeq(Zero, query.weight) /\ RLeq(query.weight, One)
                   /\ \A e \in Distances :
                          (RLeq(d, e) /\ RLeq(e, radius)) =>
                              RLeq(ComputeWeight(e, radius, falloff), query.weight)
                   /\ falloff = 0 => query.weight = RSub(One, RDiv(d, radius))
                   /\ (RLess(Zero, d) /\ RLess(d, radius)) =>
                          \A larger \in falloff..MaxFalloff :
                              RLeq(ComputeWeight(d, radius, larger), query.weight)

\* a call strictly inside the radius with a falloff that bends the ramp:
\* distance 1, radius 2, falloff 1 gives 1/3
C20_Witness ==
    /\ query.outcome = "returned"
    /\ query.distance = Int2Rat(1)
    /\ query.maxDistance = Int2Rat(2)
    /\ query.falloff = 1
    /\ query.weight = <<1, 3>>

\* C21: the face loop starts from the faces that touch the vertex and never
\* loses a face; when it ends it has expanded faceLimit - 1 times, and not at
\* all for a face limit of 1 or less, which leaves the faces that touch the
\* vertex; the set is the one the control point's radius is computed from.
C21_FaceGrowth ==
    /\ grow.pc \in {"loop", "done"} =>
           /\ ConnectedFacesOfVertex(grow.vertexIndex) \subseteq grow.faceIndices
           /\ grow.before \subseteq grow.faceIndices
           /\ grow.rounds = 0 => grow.faceIndices = ConnectedFacesOfVertex(grow.vertexIndex)
    /\ grow.pc = "done" =>
           /\ grow.rounds = (IF grow.faceLimit <= 1 THEN 0 ELSE grow.faceLimit - 1)
           /\ grow.faceIndices = ControlPointFaces(grow.vertexIndex, grow.faceLimit)

\* the loop has ended after two rounds that each added a face: vertex 0 with
\* the face limit 3 reaches all three faces from the one that touches it
C21_Witness ==
    /\ grow.pc = "done"
    /\ grow.vertexIndex = 0
    /\ grow.faceLimit = 3
    /\ grow.rounds = 2
    /\ ConnectedFacesOfVertex(0) = {0}
    /\ grow.faceIndices = {0, 1, 2}

\* the pairs (control point, place in its affected list) that hold the target
\* vertex t
Covering(t) ==
    {c \in (1..Len(inst.controlPoints)) \X (1..MaxTargets) :
        /\ c[2] <= Len(inst.controlPoints[c[1]].vertexIndices)
        /\ inst.controlPoints[c[1]].vertexIndices[c[2]] = t}

\* the falloff weight of a pair times the weight of its source vertex for j
Contribution(c, j) ==
    RMul(inst.controlPoints[c[1]].vertexWeights[c[2]],
         Get(SrcWeights(inst.controlPoints[c[1]].index), j))

\* C22: when the accumulation loop of Skin Wrap has ended, and before the
\* normalization, the target vertices with an accumulated map are those some
\* control point affects, and the value of influence j at target vertex t is
\* the sum, over the pairs that hold t, of the falloff weight times the
\* source vertex's weight for j (a sum over a set, whatever the order).
C22_AdditiveAccumulation ==
    (alg = "SkinWrap" /\ pc = "normalize") =>
        /\ DOMAIN updates = {t \in SeqToSet(vertexIndices) : Covering(t) # {}}
        /\ \A t \in DOMAIN updates :
               /\ DOMAIN updates[t] =
                      UNION {DOMAIN SrcWeights(inst.controlPoints[c[1]].index) : c \in Covering(t)}
               /\ \A j \in DOMAIN updates[t] :
                      updates[t][j] =
                          RSum([c \in Covering(t) |-> Contribution(c, j)], Covering(t))

\* two control points reach the same target vertex, each with a weight above
\* zero for the same influence
C22_Witness ==
    /\ alg = "SkinWrap"
    /\ pc = "normalize"
    /\ \E t \in DOMAIN updates, j \in 0..2 :
           \E c, d \in Covering(t) :
               /\ c[1] # d[1]
               /\ RLess(Zero, Contribution(c, j))
               /\ RLess(Zero, Contribution(d, j))

\* C23: in a Skin Wrap call the missing vertices are those requested vertices
\* whose accumulated map did not normalize or that no control point reached;
\* once there are any, the call does not end with an exception, and after the
\* fallback every missing vertex has the map of its nearest source vertex
\* while every normalized vertex keeps its normalized map.
C23_SkinWrapMissRecovered ==
    (alg = "SkinWrap" /\ Len(missing) > 0) =>
        /\ SeqToSet(missing) =
               SeqToSet(vertexIndices) \ DOMAIN Normalized(updates, maxInfluences)
        /\ pc # "raised"
        /\ pc = "influences" =>
               /\ DOMAIN normalizedUpdates =
                      DOMAIN Normalized(updates, maxInfluences) \cup SeqToSet(missing)
               /\ \A v \in DOMAIN Normalized(updates, maxInfluences) :
                      normalizedUpdates[v] = Normalized(updates, maxInfluences)[v]
               /\ \A v \in SeqToSet(missing) :
                      normalizedUpdates[v] =
                          SrcWeights(inst.vertexIndices[
                              1 + QueryNearest(ControlPoints(srcPos, inst.vertexIndices),
                                               TgtPos(otherKind)[v])])

\* C24: in a transfer call there is no influence map and nothing applied
\* while the updates are computed; the map, once built, is the map of exactly
\* the influence ids that are keys of the computed updates; it is still that
\* map, whose targets are now the keys of the remapped updates, when the
\* batch is applied, and nothing is applied before the remap.
C24_InfluenceMapOnce ==
    /\ pc \in {"loop", "setup", "accumulate", "normalize", "fallback", "influences"} =>
           (influenceMap = <<>> /\ Len(applied) = 0)
    /\ pc = "remap" =>
           (influenceMap = CreateInfluenceMap(InfluenceIds(Batch)) /\ Len(applied) = 0)
    /\ pc \in {"apply", "done"} =>
           /\ {influenceMap[j] : j \in DOMAIN influenceMap} = InfluenceIds(Batch)
           /\ influenceMap = CreateInfluenceMap(DOMAIN influenceMap)
           /\ Len(applied) = (IF pc = "done" THEN 1 ELSE 0)

\* C25: the control points of a Skin Wrap call stay as they were created
\* until the call ends, and between calls the instance holds no control point,
\* no target position and no target vertex map.
C25_ControlPointsDiscarded ==
    alg = "SkinWrap" =>
        /\ pc \in {"accumulate", "normalize", "fallback", "influences", "remap", "apply",
                    "done"} =>
               \A k \in 1..Len(inst.controlPoints) :
                   inst.controlPoints[k] =
                       InitializeControlPoint(inst.vertexIndices[k], inst)
        /\ pc = "idle" =>
               /\ inst.controlPoints = <<>>
               /\ inst.otherPoints = <<>>
               /\ inst.otherVertexMap = <<>>

\* C30: in a transfer call over an empty target vertex list the target
\* skin's weights stay as they were; a Closest Point or a Point-on-Surface
\* call has raised ZeroDivisionError with no influence map built and nothing
\* applied; an Inverse Distance call does not raise and ends with one applied
\* batch, an empty one.
C30_EmptyTargetList ==
    (pc \notin {"new", "failed", "idle"} /\ Len(vertexIndices) = 0) =>
        /\ otherWeights = TgtInitialWeights(otherKind)
        /\ alg \in {"ClosestPoint", "PointOnSurface"} =>
               /\ pc = "raised"
               /\ error = "ZeroDivisionError"
               /\ influenceMap = <<>>
               /\ Len(applied) = 0
        /\ alg = "InverseDistance" =>
               /\ pc # "raised"
               /\ DOMAIN updates = {}
               /\ pc = "done" => applied = <<updates>>

\* an Inverse Distance call over an empty list, from an instance with source
\* vertices, has ended with its empty batch applied
C30_Witness ==
    /\ alg = "InverseDistance"
    /\ pc = "done"
    /\ Len(inst.vertexIndices) > 0
    /\ vertexIndices = <<>>
    /\ Len(applied) = 1
    /\ DOMAIN applied[1] = {}
    /\ otherWeights = TgtInitialWeights(otherKind)

\* C26: the method combo box has as many entries as the window has transfer
\* classes, so its current index always selects a class and a click on
\* Transfer never ends with the IndexError of the lookup.
C26_MethodLookup ==
    /\ window.currentMethod + 1 <= Len(Methods)
    /\ window.event.handler = "transfer" => window.event.error # "IndexError"

\* C27: the clipboard list and the clipboard table have the same number of
\* entries, and every row shows the clipboard item at its place; a delete
\* click that finds no cell (row -1) removes no clipboard item.
C27_ClipboardMatchesTable ==
    /\ Len(window.clipboard) = Len(window.rows)
    /\ \A n \in 1..Len(window.rows) :
           n <= Len(window.clipboard) => window.rows[n].item = window.clipboard[n]

\* C28: every clipboard item refers to the skin of the object it was
\* extracted from, the one whose influences it holds.
C28_ItemsKeepTheirSkin ==
    \A n \in 1..Len(window.clipboard) :
        window.handles[window.clipboard[n].skin] = window.clipboard[n].influences

\* the conditions under which a click on Transfer may construct an instance
TransferAllowed ==
    /\ Len(window.selection) = 1
    /\ Skinned(window.selection[1])
    /\ 0 <= window.currentRow
    /\ window.currentRow < Len(window.clipboard)

\* C29: when the Transfer handler has run, it has constructed an instance or
\* called transfer only if exactly one object is selected, the object has a
\* skin and the current row is a row of the clipboard; otherwise it has
\* returned without an exception, an instance or a call.
C29_TransferGuards ==
    window.event.handler = "transfer" =>
        /\ (window.event.constructed \/ window.event.called) => TransferAllowed
        /\ ~TransferAllowed =>
               /\ ~window.event.constructed
               /\ ~window.event.called
               /\ window.event.error = "none"
               /\ window.event.cls = "none"

\* a click on Transfer with one skinned object selected and the second of two
\* clipboard rows current has constructed an instance and called transfer
C29_Witness ==
    /\ window.event.handler = "transfer"
    /\ window.event.constructed
    /\ window.event.called
    /\ Len(window.clipboard) = 2
    /\ window.currentRow = 1
    /\ TransferAllowed

=============================================================================
